---- MODULE Spec2Model ----
(***************************************************************************)
(* ThreadedEnginePerDevice (src/engine/threaded_engine_perdevice.cc):      *)
(* the per-device task dispatcher.  Caller threads run PushToExecute,      *)
(* worker threads run CPUWorker / GPUWorker, and one thread runs the       *)
(* destructor of the engine.                                               *)
(*                                                                         *)
(* The blocking queue, the thread pool and ExecuteOprBlock are not part of *)
(* the source file; they are modelled from their contracts: push, blocking *)
(* pop and a shutdown signal after which every pop fails; a pool that      *)
(* starts n threads and joins them on teardown; a synchronous execute.     *)
(*                                                                         *)
(* The model is of a build with MXNET_USE_CUDA = 1 (GPUWorker has a body). *)
(* The unsynchronized read of a registry slot (line 107) returns either    *)
(* the null pointer or the stored block, whichever the interleaving with   *)
(* the store of line 116 gives.                                            *)
(***************************************************************************)
EXTENDS Naturals, Sequences, FiniteSets, TLC

(* ------------------------------- bounds -------------------------------- *)
MaxTasks == 2
NumCallers == 2

(* -------------------------- program constants -------------------------- *)
kMaxNumGPUs == 1
cpu_worker_nthreads_ == 2
gpu_worker_nthreads_ == 2
gpu_copy_nthreads_ == 1

kNormal == "kNormal"
kCopyFromGPU == "kCopyFromGPU"
kCopyToGPU == "kCopyToGPU"
kAsync == "kAsync"
FnProperty == {kNormal, kCopyFromGPU, kCopyToGPU, kAsync}

cpu_kDevMask == "cpu"
gpu_kDevMask == "gpu"
other_kDevMask == "other"

\* The contexts a caller can hand in: the CPU, every GPU id up to and
\* including the first one out of bounds, and a context of another device class.
Contexts ==
    {[dev_mask |-> cpu_kDevMask, dev_id |-> 0]}
    \cup {[dev_mask |-> gpu_kDevMask, dev_id |-> d] : d \in 0..kMaxNumGPUs}
    \cup {[dev_mask |-> other_kDevMask, dev_id |-> 0]}

Callers == 1..NumCallers
Tasks == 1..MaxTasks

(* --------------------------- worker blocks ----------------------------- *)
DevIds == 0..(kMaxNumGPUs - 1)
gpu_normal_workers_ == {<<"normal", d>> : d \in DevIds}
gpu_copy_workers_ == {<<"copy", d>> : d \in DevIds}
Slots == gpu_normal_workers_ \cup gpu_copy_workers_
cpu_worker_ == <<"cpu", 0>>
Blocks == Slots \cup {cpu_worker_}

NullBlock == 0

\* nthread of a block: lines 35 and 115.
NThreads(b) ==
    IF b = cpu_worker_ THEN cpu_worker_nthreads_
    ELSE IF b[1] = "copy" THEN gpu_copy_nthreads_
    ELSE gpu_worker_nthreads_

\* A worker thread is named by its block and its index in the block's pool.
Workers == UNION {{<<b, i>> : i \in 1..NThreads(b)} : b \in Blocks}
WorkersOf(b) == {w \in Workers : w[1] = b}
GPUWorkers == {w \in Workers : w[1] # cpu_worker_}

NullStream == 0
\* A run context left holding the stream of a worker thread.
InlineStreamNotNull == NullStream + 1
\* run_ctx.stream of the inline path: line 48.
InlineStream == NullStream
StreamIds == 1..Cardinality(GPUWorkers)

VARIABLES
    task,           \* task[t]: the OprBlock handed in as task t (prop, ctx, pusher_thread, caller)
    nextTask,       \* the next task id to hand in
    cpc,            \* cpc[c]: where caller c is inside PushToExecute
    ctask,          \* ctask[c]: the task of c's current call
    cblock,         \* cblock[c]: the slot and the block GetGPUWorkerBlock works on / returned
    aborted,        \* a CHECK failed: the process is gone
    create_mutex_,  \* 0, or the caller that holds it
    slot,           \* slot[s]: NullBlock, or the block stored in the registry slot
    constructed,    \* constructed[s]: how many ThreadWorkerBlocks were constructed for s
    task_queue,     \* task_queue[b]: the queue's contents
    exit_now,       \* exit_now[b]: SignalForKill was called on the queue
    wpc,            \* wpc[w]: where worker thread w is
    wtask,          \* wtask[w]: the task w popped last
    wstream,        \* wstream[w]: run_ctx.stream of w
    streams,        \* streams[id]: "free", or the kind of the live stream
    pushSeq,        \* pushSeq[b]: every task pushed to b's queue, in push order
    deqSeq,         \* deqSeq[b]: <<task, worker>> for every successful pop, in pop order
    execs,          \* execs[t]: one record (thread, stream) per started execution of t
    done,           \* done[t]: the number of completed executions of t
    nstream,        \* nstream[w]: how many streams GPU worker w has acquired (acq) and released (rel)
    nlock,          \* nlock[s]: how many times create_mutex_ was acquired by a call working on slot s
    dpos,           \* 0: engine alive; else the position of the destructor in DestroyOrder
    dstate          \* dstate[b]: "live", "joining" (signalled, pool being joined), "destroyed"

vars == <<task, nextTask, cpc, ctask, cblock, aborted, create_mutex_, slot,
          constructed, task_queue, exit_now, wpc, wtask, wstream, streams,
          pushSeq, deqSeq, execs, done, nstream, nlock, dpos, dstate>>

NoTask == [prop |-> "none", ctx |-> [dev_mask |-> "none", dev_id |-> 0],
           pusher_thread |-> FALSE, caller |-> 0]

\* A constructor that makes the CPU block but starts no thread on it.
WorkerStateWithoutCPUPool(w) == "unstarted"

\* Lines 33-37: the constructor starts the CPU pool, whose threads go to their
\* first Pop; the threads of a GPU block do not exist before lines 118-120.
WorkerStateAfterCtor(w) == IF w[1] = cpu_worker_ THEN "pop" ELSE "unstarted"

\* The state after the constructor (lines 27-39): the CPU block exists and its
\* pool of cpu_worker_nthreads_ threads is started; every GPU slot is null.
Init ==
    /\ task = [t \in Tasks |-> NoTask]
    /\ nextTask = 1
    /\ cpc = [c \in Callers |-> "idle"]
    /\ ctask = [c \in Callers |-> 0]
    /\ cblock = [c \in Callers |-> <<cpu_worker_, NullBlock>>]
    /\ aborted = FALSE
    /\ create_mutex_ = 0
    /\ slot = [s \in Slots |-> NullBlock]
    /\ constructed = [s \in Slots |-> 0]
    /\ task_queue = [b \in Blocks |-> <<>>]
    /\ exit_now = [b \in Blocks |-> FALSE]
    /\ wpc = [w \in Workers |-> WorkerStateAfterCtor(w)]
    /\ wtask = [w \in Workers |-> 0]
    /\ wstream = [w \in Workers |-> NullStream]
    /\ streams = [i \in StreamIds |-> "free"]
    /\ pushSeq = [b \in Blocks |-> <<>>]
    /\ deqSeq = [b \in Blocks |-> <<>>]
    /\ execs = [t \in Tasks |-> <<>>]
    /\ done = [t \in Tasks |-> 0]
    /\ nstream = [w \in GPUWorkers |-> [acq |-> 0, rel |-> 0]]
    /\ nlock = [s \in Slots |-> 0]
    /\ dpos = 0
    /\ dstate = [b \in Blocks |-> "live"]

(* ------------------- contracts of the collaborators -------------------- *)
\* A block declaring a queue that is not the FIFO one.
task_queue_type_priority == "kPriority"

\* The queue type the block declares (line 67): the default, FIFO, queue.
task_queue_type == "kFIFO"

\* ConcurrentBlockingQueue::Push: at the back of a FIFO queue (a queue of
\* another type gives no such order: it is modelled as pushing at the front).
QueuePush(q, t) == IF task_queue_type = "kFIFO" THEN Append(q, t) ELSE <<t>> \o q

\* ConcurrentBlockingQueue::Pop returns an item when the queue is not shut
\* down and not empty, fails once it is shut down, and blocks otherwise.
QueuePopSucceeds(b) == ~exit_now[b] /\ task_queue[b] # <<>>
\* A Pop that fails on an empty queue instead of blocking.
QueuePopFailsWhenEmpty(b) == exit_now[b] \/ task_queue[b] = <<>>

QueuePopFails(b) == exit_now[b]

\* mshadow::NewStream: a new stream object.  Every GPU worker thread calls it
\* once (line 139 or 141), so the object is named after the calling thread.
NewStream(w) ==
    (w[1][2] * (gpu_worker_nthreads_ + gpu_copy_nthreads_))
    + (IF w[1][1] = "normal" THEN w[2] ELSE gpu_worker_nthreads_ + w[2])

(* ------------------------ PushToExecute (44-61) ------------------------ *)
\* line 45
\* Inline execution of whatever the pushing thread hands in.
IsInlineWhateverProp(prop, pusher_thread) == pusher_thread

IsInline(prop, pusher_thread) == prop = kAsync /\ pusher_thread

\* An inline branch without the check of the device class.
NoInlineCheck(ctx) == TRUE

\* line 46: CHECK_EQ(opr_block->ctx.dev_mask, cpu::kDevMask)
InlineCheck(ctx) == ctx.dev_mask = cpu_kDevMask

\* A PushToExecute whose inline branch falls through to the queued path.
AfterInlineFallsThrough == "queued"

\* lines 49-50, 61: after the inline execution the call returns.
AfterInline == "idle"

\* lines 96-97
\* A category test that knows one of the two copy properties only.
is_copy_from_only(prop) == prop = kCopyFromGPU

is_copy(prop) == prop = kCopyFromGPU \/ prop = kCopyToGPU

\* A bound check that is off by one.
DevIdInBoundOffByOne(dev_id) == dev_id <= kMaxNumGPUs

\* line 98: CHECK_LT(dev_id, kMaxNumGPUs)
DevIdInBound(dev_id) == dev_id < kMaxNumGPUs

\* One array used for both categories.
WorkersForNormalOnly(prop, dev_id) == <<"normal", dev_id>>

\* lines 101-106: the array, and with dev_id the slot, the call works on.
WorkersFor(prop, dev_id) ==
    IF is_copy(prop) THEN <<"copy", dev_id>> ELSE <<"normal", dev_id>>

\* No fast path: every call goes for the lock, whatever the first read saw.
NoFastPath(s) == FALSE

\* lines 107-108: the first read, without the lock.
FirstReadFindsBlock(s) == slot[s] # NullBlock

\* No second read: the block is created whenever the first read saw null.
NoRecheck(s) == FALSE

\* lines 113-114: the second read, under the lock.
RecheckFindsBlock(s) == slot[s] # NullBlock

ByCaller(c, st) == [by |-> "caller", caller |-> c, worker |-> <<cpu_worker_, 0>>, stream |-> st]
ByWorker(w) == [by |-> "worker", caller |-> 0, worker |-> w, stream |-> wstream[w]]

\* A branch that forgets to push the task.
PushForgotten(b, t) == UNCHANGED <<task_queue, pushSeq>>

\* task_queue.Push(opr_block) of lines 53 and 58.
Push(b, t) ==
    /\ task_queue' = [task_queue EXCEPT ![b] = QueuePush(@, t)]
    /\ pushSeq' = [pushSeq EXCEPT ![b] = Append(@, t)]

\* A CHECK fails: the process aborts.
Abort(c) ==
    /\ aborted' = TRUE
    /\ cpc' = [cpc EXCEPT ![c] = "aborted"]

\* Entry of PushToExecute, lines 44-50: the task is handed in; the inline
\* branch checks the context and starts executing in the calling thread.
PushToExecute(c, prop, ctx, pusher_thread) ==
    /\ ~aborted /\ dpos = 0
    /\ cpc[c] = "idle"
    /\ nextTask <= MaxTasks
    /\ LET t == nextTask IN
        /\ task' = [task EXCEPT ![t] = [prop |-> prop, ctx |-> ctx,
                                        pusher_thread |-> pusher_thread, caller |-> c]]
        /\ nextTask' = t + 1
        /\ ctask' = [ctask EXCEPT ![c] = t]
        /\ IF IsInline(prop, pusher_thread)
           THEN IF InlineCheck(ctx)
                THEN /\ execs' = [execs EXCEPT ![t] = Append(@, ByCaller(c, InlineStream))]
                     /\ cpc' = [cpc EXCEPT ![c] = "inline"]
                     /\ UNCHANGED aborted
                ELSE /\ Abort(c)
                     /\ UNCHANGED execs
           ELSE /\ cpc' = [cpc EXCEPT ![c] = "queued"]
                /\ UNCHANGED <<execs, aborted>>
    /\ UNCHANGED <<cblock, create_mutex_, slot, constructed, task_queue, exit_now,
                   wpc, wtask, wstream, streams, pushSeq, deqSeq, done, dpos, dstate, nlock, nstream>>

\* Line 49: ExecuteOprBlock returns in the calling thread, and the call returns.
InlineExecuteDone(c) ==
    /\ ~aborted
    /\ cpc[c] = "inline"
    /\ done' = [done EXCEPT ![ctask[c]] = @ + 1]
    /\ cpc' = [cpc EXCEPT ![c] = AfterInline]
    /\ UNCHANGED <<task, nextTask, ctask, cblock, aborted, create_mutex_, slot,
                   constructed, task_queue, exit_now, wpc, wtask, wstream, streams,
                   pushSeq, deqSeq, execs, dpos, dstate, nlock, nstream>>

\* Lines 51-53: a CPU task goes to the CPU queue.
PushCPU(c) ==
    /\ ~aborted
    /\ cpc[c] = "queued"
    /\ task[ctask[c]].ctx.dev_mask = cpu_kDevMask
    /\ Push(cpu_worker_, ctask[c])
    /\ cpc' = [cpc EXCEPT ![c] = "idle"]
    /\ UNCHANGED <<task, nextTask, ctask, cblock, aborted, create_mutex_, slot,
                   constructed, exit_now, wpc, wtask, wstream, streams,
                   deqSeq, execs, done, dpos, dstate, nlock, nstream>>

\* Lines 55-57 and 96-108: the device class and the device id are checked,
\* then the slot is read without the lock.
GetGPUWorkerBlock(c) ==
    /\ ~aborted
    /\ cpc[c] = "queued"
    /\ task[ctask[c]].ctx.dev_mask # cpu_kDevMask
    /\ LET ctx == task[ctask[c]].ctx
           s == WorkersFor(task[ctask[c]].prop, ctx.dev_id)
       IN IF ctx.dev_mask # gpu_kDevMask \/ ~DevIdInBound(ctx.dev_id)
          THEN /\ Abort(c)
               /\ UNCHANGED cblock
          ELSE IF s \notin Slots
          THEN \* workers->at(dev_id) throws std::out_of_range
               /\ cpc' = [cpc EXCEPT ![c] = "threw"]
               /\ UNCHANGED <<cblock, aborted>>
          ELSE /\ cblock' = [cblock EXCEPT ![c] = <<s, slot[s]>>]
               /\ cpc' = [cpc EXCEPT ![c] = IF FirstReadFindsBlock(s) THEN "push" ELSE "lock"]
               /\ UNCHANGED aborted
    /\ UNCHANGED <<task, nextTask, ctask, create_mutex_, slot, constructed,
                   task_queue, exit_now, wpc, wtask, wstream, streams,
                   pushSeq, deqSeq, execs, done, dpos, dstate, nlock, nstream>>

\* A return that leaves create_mutex_ locked.
UnlockForgottenOnRecheck(c) == UNCHANGED create_mutex_
UnlockForgottenOnReturn(c) == UNCHANGED create_mutex_

\* Lines 114 and 121-122: the lock_guard goes out of scope at the return.
UnlockOnRecheckReturn(c) == create_mutex_' = 0
UnlockOnReturn(c) == create_mutex_' = 0

\* Line 111: std::lock_guard<std::mutex> lock(create_mutex_)
Lock(c) ==
    /\ ~aborted
    /\ cpc[c] = "lock"
    /\ create_mutex_ = 0
    /\ create_mutex_' = c
    /\ nlock' = [nlock EXCEPT ![cblock[c][1]] = @ + 1]
    /\ cpc' = [cpc EXCEPT ![c] = "locked"]
    /\ UNCHANGED <<task, nextTask, ctask, cblock, aborted, slot, constructed,
                   task_queue, exit_now, wpc, wtask, wstream, streams,
                   pushSeq, deqSeq, execs, done, dpos, dstate, nstream>>

\* Lines 113-117: the slot is read again; if it is still null a new
\* ThreadWorkerBlock (with its empty queue) is constructed and stored.
CreateBlock(c) ==
    /\ ~aborted
    /\ cpc[c] = "locked"
    /\ LET s == cblock[c][1] IN
       IF RecheckFindsBlock(s)
       THEN /\ cblock' = [cblock EXCEPT ![c] = <<s, slot[s]>>]
            /\ UnlockOnRecheckReturn(c)
            /\ cpc' = [cpc EXCEPT ![c] = "push"]
            /\ UNCHANGED <<slot, constructed, task_queue, exit_now>>
       ELSE /\ constructed' = [constructed EXCEPT ![s] = @ + 1]
            /\ slot' = [slot EXCEPT ![s] = constructed[s] + 1]
            /\ task_queue' = [task_queue EXCEPT ![s] = <<>>]
            /\ exit_now' = [exit_now EXCEPT ![s] = FALSE]
            /\ cblock' = [cblock EXCEPT ![c] = <<s, constructed[s] + 1>>]
            /\ cpc' = [cpc EXCEPT ![c] = "pool"]
            /\ UNCHANGED create_mutex_
    /\ UNCHANGED <<task, nextTask, ctask, aborted, wpc, wtask, wstream, streams,
                   pushSeq, deqSeq, execs, done, dpos, dstate, nlock, nstream>>

\* Lines 118-122: the pool of nthread threads is started, each running
\* GPUWorker on the block's queue; the lock is released and the block returned.
StartPool(c) ==
    /\ ~aborted
    /\ cpc[c] = "pool"
    /\ wpc' = [w \in Workers |-> IF w[1] = cblock[c][1] THEN "start" ELSE wpc[w]]
    /\ UnlockOnReturn(c)
    /\ cpc' = [cpc EXCEPT ![c] = "push"]
    /\ UNCHANGED <<task, nextTask, ctask, cblock, aborted, slot, constructed,
                   task_queue, exit_now, wtask, wstream, streams,
                   pushSeq, deqSeq, execs, done, dpos, dstate, nlock, nstream>>

\* Line 58: block->task_queue.Push(opr_block)
PushGPU(c) ==
    /\ ~aborted
    /\ cpc[c] = "push"
    /\ Push(cblock[c][1], ctask[c])
    /\ cpc' = [cpc EXCEPT ![c] = "idle"]
    /\ UNCHANGED <<task, nextTask, ctask, cblock, aborted, create_mutex_, slot,
                   constructed, exit_now, wpc, wtask, wstream, streams,
                   deqSeq, execs, done, dpos, dstate, nlock, nstream>>

(* ------------------- worker loops (130-151, 156-164) ------------------- *)
\* Lines 119 and 131: whether the thread was started as a copy worker.
is_copy_worker(w) == w[1][1] = "copy"

\* A worker that asks for a compute stream whatever its category.
StreamKindAlwaysCompute(copy_worker) == "compute"

\* Lines 138-142: NewStream<gpu>(false, false) for a copy worker, a stream
\* with BLAS (and cuDNN) handles otherwise.
StreamKind(copy_worker) == IF copy_worker THEN "copy" ELSE "compute"

\* Threads started on the queue of the normal block whatever their block.
QueueOfNormalBlock(w) == IF w[1] = cpu_worker_ THEN cpu_worker_ ELSE <<"normal", w[1][2]>>

\* Lines 33-36 and 119: the queue the thread's loop was started on, the one
\* of its own block.
QueueOf(w) == w[1]

\* Lines 135-143: a GPU worker thread acquires its stream, transfer-only
\* for a copy worker and compute-capable otherwise.
GPUWorkerStart(w) ==
    /\ ~aborted
    /\ wpc[w] = "start"
    /\ streams' = [streams EXCEPT ![NewStream(w)] = StreamKind(is_copy_worker(w))]
    /\ wstream' = [wstream EXCEPT ![w] = NewStream(w)]
    /\ nstream' = [nstream EXCEPT ![w].acq = @ + 1]
    /\ wpc' = [wpc EXCEPT ![w] = "pop"]
    /\ UNCHANGED <<task, nextTask, cpc, ctask, cblock, aborted, create_mutex_, slot,
                   constructed, task_queue, exit_now, wtask,
                   pushSeq, deqSeq, execs, done, dpos, dstate, nlock>>

\* Lines 146-147 and 161-162: Pop returns a task and ExecuteOprBlock is
\* entered with the thread's run context.
WorkerPop(w) ==
    /\ ~aborted
    /\ wpc[w] = "pop"
    /\ QueuePopSucceeds(QueueOf(w))
    /\ LET t == Head(task_queue[QueueOf(w)]) IN
        /\ task_queue' = [task_queue EXCEPT ![QueueOf(w)] = Tail(@)]
        /\ deqSeq' = [deqSeq EXCEPT ![QueueOf(w)] = Append(@, <<t, w>>)]
        /\ wtask' = [wtask EXCEPT ![w] = t]
        /\ execs' = [execs EXCEPT ![t] = Append(@, ByWorker(w))]
    /\ wpc' = [wpc EXCEPT ![w] = "exec"]
    /\ UNCHANGED <<task, nextTask, cpc, ctask, cblock, aborted, create_mutex_, slot,
                   constructed, exit_now, wstream, streams,
                   pushSeq, done, dpos, dstate, nlock, nstream>>

\* A loop that gives up the task in progress once the queue is signalled.
WorkerExecuteInterruptible(w) ==
    /\ ~aborted
    /\ wpc[w] = "exec"
    /\ done' = [done EXCEPT ![wtask[w]] = IF exit_now[QueueOf(w)] THEN @ ELSE @ + 1]
    /\ wpc' = [wpc EXCEPT ![w] = "pop"]
    /\ UNCHANGED <<task, nextTask, cpc, ctask, cblock, aborted, create_mutex_, slot,
                   constructed, task_queue, exit_now, wtask, wstream, streams,
                   pushSeq, deqSeq, execs, dpos, dstate, nlock, nstream>>

\* Lines 147 and 162: ExecuteOprBlock returns; the loop goes back to Pop.
WorkerExecuteDone(w) ==
    /\ ~aborted
    /\ wpc[w] = "exec"
    /\ done' = [done EXCEPT ![wtask[w]] = @ + 1]
    /\ wpc' = [wpc EXCEPT ![w] = "pop"]
    /\ UNCHANGED <<task, nextTask, cpc, ctask, cblock, aborted, create_mutex_, slot,
                   constructed, task_queue, exit_now, wtask, wstream, streams,
                   pushSeq, deqSeq, execs, dpos, dstate, nlock, nstream>>

\* Lines 146 and 161: Pop fails and the loop ends.  A CPU worker returns,
\* a GPU worker goes on to release its stream.
WorkerPopFails(w) ==
    /\ ~aborted
    /\ wpc[w] = "pop"
    /\ QueuePopFails(QueueOf(w))
    /\ wpc' = [wpc EXCEPT ![w] = IF w[1] = cpu_worker_ THEN "exited" ELSE "release"]
    /\ UNCHANGED <<task, nextTask, cpc, ctask, cblock, aborted, create_mutex_, slot,
                   constructed, task_queue, exit_now, wtask, wstream, streams,
                   pushSeq, deqSeq, execs, done, dpos, dstate, nlock, nstream>>

\* Line 149: mshadow::DeleteStream<gpu>(stream), then the thread returns.
GPUWorkerDeleteStream(w) ==
    /\ ~aborted
    /\ wpc[w] = "release"
    /\ streams' = [streams EXCEPT ![wstream[w]] = "free"]
    /\ nstream' = [nstream EXCEPT ![w].rel = @ + 1]
    /\ wpc' = [wpc EXCEPT ![w] = "exited"]
    /\ UNCHANGED <<task, nextTask, cpc, ctask, cblock, aborted, create_mutex_, slot,
                   constructed, task_queue, exit_now, wtask, wstream,
                   pushSeq, deqSeq, execs, done, dpos, dstate, nlock>>

(* --------------------- destruction (40-41, 65-74) ---------------------- *)
\* The members are destroyed in the reverse order of their declaration
\* (lines 84-88): gpu_copy_workers_, gpu_normal_workers_, then cpu_worker_;
\* the elements of an array from the last to the first.
DestroyOrder ==
    [i \in 1..(2 * kMaxNumGPUs + 1) |->
        IF i <= kMaxNumGPUs THEN <<"copy", kMaxNumGPUs - i>>
        ELSE IF i <= 2 * kMaxNumGPUs THEN <<"normal", 2 * kMaxNumGPUs - i>>
        ELSE cpu_worker_]

\* A null unique_ptr destroys nothing.
BlockExists(b) == b = cpu_worker_ \/ slot[b] # NullBlock
NextExisting(i) ==
    CHOOSE j \in i..Len(DestroyOrder) :
        /\ BlockExists(DestroyOrder[j])
        /\ \A k \in i..(j - 1) : ~BlockExists(DestroyOrder[k])

\* Lines 40-41: the engine is destroyed.  No call of PushToExecute is in
\* progress and none starts afterwards (the object's lifetime has ended).
EngineDtor ==
    /\ ~aborted
    /\ dpos = 0
    /\ \A c \in Callers : cpc[c] = "idle"
    /\ dpos' = NextExisting(1)
    /\ UNCHANGED <<task, nextTask, cpc, ctask, cblock, aborted, create_mutex_, slot,
                   constructed, task_queue, exit_now, wpc, wtask, wstream, streams,
                   pushSeq, deqSeq, execs, done, dstate, nlock, nstream>>

\* A destructor that does not signal the queue.
DtorBodyWithoutSignal(b) == UNCHANGED exit_now

\* Line 72: the body of ~ThreadWorkerBlock.
ThreadWorkerBlockDtorBody(b) == exit_now' = [exit_now EXCEPT ![b] = TRUE]

\* Lines 71-73: ~ThreadWorkerBlock runs its body; then the members are
\* destroyed, the pool first (declared last, line 69): its teardown begins.
ThreadWorkerBlockDtor(b) ==
    /\ ~aborted
    /\ dpos > 0 /\ dpos <= Len(DestroyOrder)
    /\ DestroyOrder[dpos] = b
    /\ dstate[b] = "live"
    /\ ThreadWorkerBlockDtorBody(b)
    /\ dstate' = [dstate EXCEPT ![b] = "joining"]
    /\ UNCHANGED <<task, nextTask, cpc, ctask, cblock, aborted, create_mutex_, slot,
                   constructed, task_queue, wpc, wtask, wstream, streams,
                   pushSeq, deqSeq, execs, done, dpos, nlock, nstream>>

\* The pool's teardown ends when every thread of the pool has returned; then
\* the queue is destroyed and the destructor goes on to the next block.
PoolJoined(b) ==
    /\ ~aborted
    /\ dpos > 0 /\ dpos <= Len(DestroyOrder)
    /\ DestroyOrder[dpos] = b
    /\ dstate[b] = "joining"
    /\ \A w \in WorkersOf(b) : wpc[w] = "exited"
    /\ dstate' = [dstate EXCEPT ![b] = "destroyed"]
    /\ dpos' = IF dpos = Len(DestroyOrder) THEN dpos + 1 ELSE NextExisting(dpos + 1)
    /\ UNCHANGED <<task, nextTask, cpc, ctask, cblock, aborted, create_mutex_, slot,
                   constructed, task_queue, exit_now, wpc, wtask, wstream, streams,
                   pushSeq, deqSeq, execs, done, nlock, nstream>>

(* --------------------------- specification ----------------------------- *)
Next ==
    \/ \E c \in Callers, prop \in FnProperty, ctx \in Contexts, pusher_thread \in BOOLEAN :
          PushToExecute(c, prop, ctx, pusher_thread)
    \/ \E c \in Callers : InlineExecuteDone(c)
    \/ \E c \in Callers : PushCPU(c)
    \/ \E c \in Callers : GetGPUWorkerBlock(c)
    \/ \E c \in Callers : Lock(c)
    \/ \E c \in Callers : CreateBlock(c)
    \/ \E c \in Callers : StartPool(c)
    \/ \E c \in Callers : PushGPU(c)
    \/ \E w \in GPUWorkers : GPUWorkerStart(w)
    \/ \E w \in Workers : WorkerPop(w)
    \/ \E w \in Workers : WorkerExecuteDone(w)
    \/ \E w \in Workers : WorkerPopFails(w)
    \/ \E w \in GPUWorkers : GPUWorkerDeleteStream(w)
    \/ EngineDtor
    \/ \E b \in Blocks : ThreadWorkerBlockDtor(b)
    \/ \E b \in Blocks : PoolJoined(b)

Spec == Init /\ [][Next]_vars

\* The steps of one thread: of a call in progress, of a worker thread, and of
\* the thread running the destructor once it has begun.
CallerStep(c) ==
    \/ InlineExecuteDone(c) \/ PushCPU(c) \/ GetGPUWorkerBlock(c)
    \/ Lock(c) \/ CreateBlock(c) \/ StartPool(c) \/ PushGPU(c)
WorkerStep(w) ==
    \/ WorkerPop(w) \/ WorkerExecuteDone(w) \/ WorkerPopFails(w)
    \/ (w \in GPUWorkers /\ (GPUWorkerStart(w) \/ GPUWorkerDeleteStream(w)))
DtorStep == \E b \in Blocks : ThreadWorkerBlockDtor(b) \/ PoolJoined(b)

\* The scheduler runs every thread that can take a step, and ExecuteOprBlock
\* returns: weak fairness of the steps of every thread.  No fairness makes a
\* caller hand in a task or the engine be destroyed.
Fairness ==
    /\ \A c \in Callers : WF_vars(CallerStep(c))
    /\ \A w \in Workers : WF_vars(WorkerStep(w))
    /\ WF_vars(DtorStep)

FairSpec == Spec /\ Fairness

(* ------------------------ vocabulary of the claims --------------------- *)
Dispatched(t) == t \in Tasks /\ t < nextTask

\* The call that handed in t has returned (it did not abort or throw).
Returned(t) ==
    /\ Dispatched(t)
    /\ \A c \in Callers : ctask[c] = t => cpc[c] = "idle"

\* How often t was pushed to the queue of b, and to any queue.
PushesTo(t, b) == Cardinality({i \in DOMAIN pushSeq[b] : pushSeq[b][i] = t})
QueuesOf(t) == {b \in Blocks : PushesTo(t, b) > 0}
Pushes(t) == Cardinality({<<b, i>> \in Blocks \X (1..MaxTasks) :
                             i \in DOMAIN pushSeq[b] /\ pushSeq[b][i] = t})

\* The executions of t started inline, and started by worker threads.
InlineExecs(t) == {i \in DOMAIN execs[t] : execs[t][i].by = "caller"}
WorkerExecs(t) == {i \in DOMAIN execs[t] : execs[t][i].by = "worker"}
ExecutedBy(t) == {execs[t][i].worker : i \in WorkerExecs(t)}

TypeOK ==
    /\ nextTask \in 1..(MaxTasks + 1)
    /\ cpc \in [Callers -> {"idle", "inline", "queued", "lock", "locked", "pool",
                             "push", "aborted", "threw"}]
    /\ ctask \in [Callers -> 0..MaxTasks]
    /\ aborted \in BOOLEAN
    /\ create_mutex_ \in {0} \cup Callers
    /\ slot \in [Slots -> {NullBlock, 1}]
    /\ exit_now \in [Blocks -> BOOLEAN]
    /\ wpc \in [Workers -> {"unstarted", "start", "pop", "exec", "release", "exited"}]
    /\ wtask \in [Workers -> 0..MaxTasks]
    /\ streams \in [StreamIds -> {"free", "copy", "compute"}]
    /\ dpos \in 0..(Len(DestroyOrder) + 1)
    /\ dstate \in [Blocks -> {"live", "joining", "destroyed"}]

(* ------------------------------- claims -------------------------------- *)

\* C1: once a call of PushToExecute has returned, its task was either executed
\* inline exactly once, in the calling thread, and pushed to no queue, or it
\* was pushed exactly once, to exactly one queue, and not executed inline; at
\* no moment is a task both executed inline and pushed, or pushed twice.
C1_InlineXorPushedOnce ==
    \A t \in Tasks : Dispatched(t) =>
        /\ Cardinality(InlineExecs(t)) + Pushes(t) <= 1
        /\ \A i \in InlineExecs(t) : execs[t][i].caller = task[t].caller
        /\ Returned(t) => Cardinality(InlineExecs(t)) + Pushes(t) = 1

C1_Witness ==
    \E t1, t2 \in Tasks :
        /\ Returned(t1) /\ Returned(t2)
        /\ Cardinality(InlineExecs(t1)) = 1 /\ Pushes(t1) = 0
        /\ Cardinality(InlineExecs(t2)) = 0 /\ Pushes(t2) = 1

\* C2 (as stated): every task handed in is executed exactly once, none is
\* left unexecuted.  Stated on the final state, every worker thread having
\* returned: every task whose call returned has been executed exactly once.
C2_Original ==
    (dpos = Len(DestroyOrder) + 1) =>
        \A t \in Tasks : Returned(t) => Len(execs[t]) = 1 /\ done[t] = 1

\* C2 (amended), safety part: no task is executed more than once, by whatever
\* threads; a task whose call returned has been executed (inline, or by one
\* worker thread of the queue it was pushed to) or is still in exactly one
\* queue, not both.
C2_AtMostOnce ==
    \A t \in Tasks : Dispatched(t) =>
        /\ Len(execs[t]) <= 1
        /\ done[t] <= Len(execs[t])
        /\ \A w \in ExecutedBy(t) : QueuesOf(t) = {w[1]}
        /\ \A b \in Blocks :
              Cardinality({i \in DOMAIN task_queue[b] : task_queue[b][i] = t})
                  = PushesTo(t, b) - Cardinality({w \in ExecutedBy(t) : w[1] = b})
        /\ Returned(t) => Len(execs[t]) + Pushes(t) - Cardinality(WorkerExecs(t)) = 1

\* C2 (amended), the whole statement: the invariant above, and under a fair
\* scheduler every task whose call returned is eventually executed unless
\* its queue is shut down or the process aborts first.
C2_ExactlyOnceUnlessShutDown ==
    /\ []C2_AtMostOnce
    /\ \A t \in Tasks :
          Returned(t) ~> (done[t] = 1 \/ aborted \/ \E b \in QueuesOf(t) : exit_now[b])

C2_Witness ==
    \E t1, t2 \in Tasks :
        /\ t1 # t2
        /\ task[t1].caller # task[t2].caller
        /\ done[t1] = 1 /\ done[t2] = 1
        /\ ExecutedBy(t1) # {} /\ ExecutedBy(t2) # {}
        /\ ExecutedBy(t1) # ExecutedBy(t2)
        /\ QueuesOf(t1) = QueuesOf(t2)

\* C3: at most one ThreadWorkerBlock is ever constructed for a slot (device
\* id, category), whatever the number of calls racing on it, and every call
\* of GetGPUWorkerBlock that returns for that slot returns that one block,
\* the one stored in the slot.
C3_SingletonBlock ==
    /\ \A s \in Slots :
          /\ constructed[s] <= 1
          /\ slot[s] = constructed[s]
    /\ \A c \in Callers : cpc[c] = "push" =>
          /\ cblock[c][2] # NullBlock
          /\ cblock[c][2] = slot[cblock[c][1]]
    /\ \A c1, c2 \in Callers :
          (cpc[c1] = "push" /\ cpc[c2] = "push" /\ cblock[c1][1] = cblock[c2][1])
              => cblock[c1] = cblock[c2]

\* Two calls found the same slot empty, both went for the lock, and both
\* have returned from GetGPUWorkerBlock.
C3_Witness ==
    \E c1, c2 \in Callers :
        /\ c1 # c2
        /\ cpc[c1] = "push" /\ cpc[c2] = "push"
        /\ cblock[c1][1] = cblock[c2][1]
        /\ nlock[cblock[c1][1]] = 2
        /\ constructed[cblock[c1][1]] = 1

IsGPUTask(t) == Dispatched(t) /\ task[t].ctx.dev_mask = gpu_kDevMask

\* C4: a copy task (kCopyFromGPU, kCopyToGPU) and a task of any other
\* property for the same GPU device id are never pushed to the same queue
\* and never executed by the same worker thread.
C4_CategoryIsolation ==
    \A t1, t2 \in Tasks :
        ( /\ IsGPUTask(t1) /\ IsGPUTask(t2)
          /\ task[t1].ctx.dev_id = task[t2].ctx.dev_id
          /\ is_copy(task[t1].prop) /\ ~is_copy(task[t2].prop) )
        => /\ QueuesOf(t1) \cap QueuesOf(t2) = {}
           /\ ExecutedBy(t1) \cap ExecutedBy(t2) = {}
           /\ \A w1 \in ExecutedBy(t1), w2 \in ExecutedBy(t2) : w1[1] # w2[1]

C4_Witness ==
    \E t1, t2 \in Tasks :
        /\ IsGPUTask(t1) /\ IsGPUTask(t2)
        /\ task[t1].ctx.dev_id = task[t2].ctx.dev_id
        /\ is_copy(task[t1].prop) /\ task[t2].prop = kNormal
        /\ done[t1] = 1 /\ done[t2] = 1
        /\ ExecutedBy(t1) # {} /\ ExecutedBy(t2) # {}

IsInlineCPUTask(t) ==
    /\ Dispatched(t)
    /\ task[t].prop = kAsync /\ task[t].pusher_thread
    /\ task[t].ctx.dev_mask = cpu_kDevMask

\* C5: a kAsync task for the CPU handed in with pusher_thread = true is
\* executed by the calling thread, with a null stream, is never on a queue,
\* and when the call has returned its execution has completed.
C5_InlineBypass ==
    \A t \in Tasks : IsInlineCPUTask(t) =>
        /\ Pushes(t) = 0
        /\ \A b \in Blocks : \A i \in DOMAIN task_queue[b] : task_queue[b][i] # t
        /\ Len(execs[t]) = 1
        /\ execs[t][1].by = "caller"
        /\ execs[t][1].caller = task[t].caller
        /\ execs[t][1].stream = NullStream
        /\ Returned(t) => done[t] = 1
        /\ done[t] = 1 => Returned(t)

C5_Witness ==
    \E t \in Tasks : IsInlineCPUTask(t) /\ Returned(t) /\ done[t] = 1

\* C6 (as stated): the tasks in a block's queue when its shutdown is
\* signalled are all popped and executed before any worker thread of the
\* block terminates: a worker that has left its loop leaves no task queued.
C6_Original ==
    \A w \in Workers :
        wpc[w] \in {"release", "exited"} => task_queue[w[1]] = <<>>

\* C6 (amended): from the moment the block's destructor has signalled the
\* queue no task is popped from it: the tasks queued at the signal stay in
\* the queue, unexecuted, while the workers terminate and the block is
\* destroyed; a worker terminates only after the task it had dequeued
\* before the signal, if any, has run to completion.
C6_NoPopAfterSignal ==
    /\ [][\A b \in Blocks : dstate[b] # "live" =>
              /\ task_queue'[b] = task_queue[b]
              /\ deqSeq'[b] = deqSeq[b]]_vars
    /\ [](\A b \in Blocks : \A i \in DOMAIN task_queue[b] : execs[task_queue[b][i]] = <<>>)
    /\ [](\A w \in Workers :
              (wpc[w] \in {"release", "exited"} /\ wtask[w] # 0) => done[wtask[w]] = 1)

\* A block is destroyed, every worker gone, with a task left in its queue.
C6_Witness ==
    \E b \in Blocks :
        /\ dstate[b] = "destroyed"
        /\ task_queue[b] # <<>>
        /\ \A w \in WorkersOf(b) : wpc[w] = "exited"

InIssueOrder(seq) ==
    \A i, j \in DOMAIN seq :
        (i < j /\ task[seq[i][1]].caller = task[seq[j][1]].caller) => seq[i][1] < seq[j][1]

\* C7: tasks one caller pushes to one queue are dequeued in the order the
\* caller issued them, and the tasks of that caller a single worker thread
\* executes are executed by it in issue order.  (A caller's calls are
\* sequential, so its issue order is the order of the task ids.)
C7_SingleProducerFIFO ==
    \A b \in Blocks :
        /\ InIssueOrder(deqSeq[b])
        /\ Len(deqSeq[b]) <= Len(pushSeq[b])
        /\ \A i \in DOMAIN deqSeq[b] : deqSeq[b][i][1] = pushSeq[b][i]
        /\ \A w \in WorkersOf(b) :
              InIssueOrder(SelectSeq(deqSeq[b], LAMBDA e : e[2] = w))

\* One caller pushed two tasks to a queue with none popped in between, and
\* two different worker threads of the pool then dequeued them.
C7_Witness ==
    \E b \in Blocks :
        /\ Len(deqSeq[b]) = 2
        /\ task[deqSeq[b][1][1]].caller = task[deqSeq[b][2][1]].caller
        /\ deqSeq[b][1][2] # deqSeq[b][2][2]
        /\ wpc[deqSeq[b][1][2]] = "exec" /\ wpc[deqSeq[b][2][2]] = "exec"

IsBadInlineTask(t) ==
    /\ Dispatched(t)
    /\ task[t].prop = kAsync /\ task[t].pusher_thread
    /\ task[t].ctx.dev_mask # cpu_kDevMask

\* C8: a kAsync task handed in with pusher_thread = true whose context is
\* not the CPU makes the process abort in that very step: the task is not
\* executed, inline or otherwise, it is pushed to no queue, and the step
\* creates no worker block; nothing happens after the abort.
C8_InlineNonCPUAborts ==
    /\ [](\A t \in Tasks : IsBadInlineTask(t) =>
              /\ aborted
              /\ cpc[task[t].caller] = "aborted" /\ ctask[task[t].caller] = t
              /\ execs[t] = <<>> /\ done[t] = 0
              /\ Pushes(t) = 0)
    /\ [][(/\ nextTask' = nextTask + 1
            /\ task'[nextTask].prop = kAsync /\ task'[nextTask].pusher_thread
            /\ task'[nextTask].ctx.dev_mask # cpu_kDevMask)
           => /\ aborted'
              /\ UNCHANGED <<slot, constructed, create_mutex_, nlock, task_queue,
                             pushSeq, deqSeq, execs, done, wpc>>]_vars
    /\ [][~aborted]_vars

C8_Witness ==
    \E t \in Tasks :
        /\ IsBadInlineTask(t)
        /\ task[t].ctx.dev_mask = gpu_kDevMask
        /\ aborted
        /\ \E b \in Slots : slot[b] # NullBlock

IsOutOfBoundTask(t) ==
    /\ Dispatched(t)
    /\ ~(task[t].prop = kAsync /\ task[t].pusher_thread)
    /\ task[t].ctx.dev_mask = gpu_kDevMask
    /\ task[t].ctx.dev_id >= kMaxNumGPUs

\* C9: a task on the queued path for a GPU context whose device id is not
\* below kMaxNumGPUs makes the process abort in GetGPUWorkerBlock before the
\* lock: the step that checks the bound takes no lock, writes no slot,
\* constructs no block and pushes nothing, and the call never goes on to
\* the lock or the push.
C9_DevIdOutOfBoundAborts ==
    /\ [](\A t \in Tasks : IsOutOfBoundTask(t) =>
              /\ ctask[task[t].caller] = t
              /\ cpc[task[t].caller] \in {"queued", "aborted"}
              /\ cpc[task[t].caller] = "aborted" => aborted
              /\ execs[t] = <<>> /\ Pushes(t) = 0)
    /\ [][\A c \in Callers :
             (cpc[c] = "queued" /\ IsOutOfBoundTask(ctask[c]) /\ cpc'[c] # "queued")
             => /\ aborted' /\ cpc'[c] = "aborted"
                /\ UNCHANGED <<create_mutex_, nlock, slot, constructed, task_queue,
                               pushSeq, wpc>>]_vars

\* The call aborted on the bound check while the other caller held the lock.
C9_Witness ==
    \E t \in Tasks :
        /\ IsOutOfBoundTask(t)
        /\ cpc[task[t].caller] = "aborted"
        /\ aborted
        /\ create_mutex_ # 0 /\ create_mutex_ # task[t].caller

\* C10: when a worker block is destroyed its queue is signalled before the
\* teardown of its pool begins; once signalled, every worker thread of the
\* block leaves its loop and returns, also one blocked in Pop on an empty
\* queue, and the teardown of the pool completes.
C10_SignalBeforeJoinAndTermination ==
    /\ [](\A b \in Blocks : dstate[b] # "live" => exit_now[b])
    /\ \A b \in Blocks :
          exit_now[b] ~> (dstate[b] = "destroyed" /\ \A w \in WorkersOf(b) : wpc[w] = "exited")

\* The pool is being torn down while one of its threads is blocked in Pop on
\* the empty queue and another is still executing a task.
C10_Witness ==
    \E b \in Blocks :
        /\ dstate[b] = "joining"
        /\ task_queue[b] = <<>>
        /\ \E w1, w2 \in WorkersOf(b) : wpc[w1] = "pop" /\ wpc[w2] = "exec"

\* The calls that are on the queued path, between the entry of PushToExecute
\* and the push.
OnQueuedPath(c) == cpc[c] \in {"queued", "lock", "locked", "pool", "push"}

\* The thread c waits for: c stands at the lock_guard and cannot go on.
Waits(c) == ~aborted /\ OnQueuedPath(c) /\ ~ ENABLED CallerStep(c)

\* C11 as stated: a call on the queued path never waits on another thread,
\* also when it resolves a block that another thread is creating.
C11_Original == \A c \in Callers : ~Waits(c)

\* C11: a call on the queued path waits on another thread at one place only,
\* the acquisition of create_mutex_ after its first read found the slot empty,
\* and only while another call holds the lock to create a block; a CPU task
\* and a task whose first read found a block never come to the lock, and the
\* recheck, the creation, the pool start and the push never wait.
C11_WaitsOnlyForCreationLock ==
    \A c \in Callers :
        /\ Waits(c) =>
              /\ cpc[c] = "lock"
              /\ \E h \in Callers \ {c} :
                    create_mutex_ = h /\ cpc[h] \in {"locked", "pool"}
        /\ cpc[c] = "lock" =>
              /\ task[ctask[c]].ctx.dev_mask = gpu_kDevMask
              /\ cblock[c][2] = NullBlock

\* A call waits at the lock while another call is between the creation of a
\* block and the start of its pool.
C11_Witness ==
    \E c, h \in Callers :
        /\ c # h /\ Waits(c)
        /\ cpc[h] = "pool" /\ create_mutex_ = h

\* C12: create_mutex_ is the one lock; a call holds it exactly while it is
\* between the lock_guard and the return of GetGPUWorkerBlock, so at most one
\* call is rechecking or creating a slot, over all device ids and both
\* categories; it is not held by a call that pushes, executes inline or is
\* back in the caller, and the worker threads, which pop and execute, never
\* take it.
C12_CreationLockExclusive ==
    /\ create_mutex_ \in {0} \cup Callers
    /\ \A c \in Callers : create_mutex_ = c <=> cpc[c] \in {"locked", "pool"}
    /\ Cardinality({c \in Callers : cpc[c] \in {"locked", "pool"}}) <= 1
    /\ \A c \in Callers :
          cpc[c] \in {"idle", "inline", "queued", "push"} => create_mutex_ # c

\* Two calls took the lock for the same slot, one created the block and the
\* other found it at the recheck; the lock is free and a push is due.
C12_Witness ==
    \E c \in Callers :
        /\ cpc[c] = "push"
        /\ nlock[cblock[c][1]] = 2
        /\ create_mutex_ = 0
        /\ \E w \in Workers : wpc[w] = "exec"

\* C16: a GetGPUWorkerBlock whose first read finds the slot of its device id
\* and category set returns that block in the same step, and the step writes
\* no slot, constructs no block, starts no thread, and does not touch
\* create_mutex_; a call takes the lock only after its first read found the
\* slot null.
C16_FastPathTakesNoLock ==
    [][\A c \in Callers :
          /\ (/\ cpc[c] = "queued" /\ cpc'[c] # "queued"
              /\ task[ctask[c]].ctx.dev_mask = gpu_kDevMask
              /\ task[ctask[c]].ctx.dev_id \in DevIds
              /\ slot[<<IF task[ctask[c]].prop \in {kCopyFromGPU, kCopyToGPU}
                        THEN "copy" ELSE "normal",
                        task[ctask[c]].ctx.dev_id>>] # NullBlock)
             => /\ cpc'[c] = "push"
                /\ cblock'[c][2] = slot[cblock'[c][1]]
                /\ cblock'[c][1][2] = task[ctask[c]].ctx.dev_id
                /\ UNCHANGED <<slot, constructed, create_mutex_, nlock, wpc,
                               task_queue, exit_now>>
          /\ (cpc[c] # "locked" /\ cpc'[c] = "locked")
             => /\ cpc[c] = "lock"
                /\ cblock[c][2] = NullBlock
                /\ slot[cblock[c][1]] \in {NullBlock, 1}
      ]_vars

\* A task was pushed to a block that was created under one acquisition of the
\* lock, and a second call has resolved the same block and is about to push:
\* one of the two took the path without the lock.
C16_Witness ==
    \E c \in Callers, s \in Slots :
        /\ cpc[c] = "push" /\ cblock[c] = <<s, 1>>
        /\ nlock[s] = 1 /\ create_mutex_ = 0
        /\ \E t \in Tasks : t # ctask[c] /\ Returned(t) /\ PushesTo(t, s) = 1

\* Scenario A, scaled to MaxTasks tasks: all the tasks handed in so far are
\* Normal CPU tasks of one submitting thread.
ScenarioA ==
    \A t \in Tasks : Dispatched(t) =>
        /\ task[t].prop = kNormal
        /\ task[t].ctx.dev_mask = cpu_kDevMask
        /\ task[t].caller = task[1].caller
ScenarioADone == ScenarioA /\ \A t \in Tasks : Dispatched(t) /\ done[t] = 1
ScenarioAThreads == UNION {ExecutedBy(t) : t \in Tasks}

\* C13 as stated: with 2 CPU workers, when the Normal CPU tasks of the
\* scenario have run, exactly 2 distinct worker threads have executed them.
C13_Original ==
    ScenarioADone => Cardinality(ScenarioAThreads) = cpu_worker_nthreads_

\* C13: with 2 CPU workers and Normal CPU tasks from one submitter, no task
\* is executed inline or more than once, the executing threads are threads
\* of the CPU pool, at most 2 of them and at least 1 once a task has run
\* (one thread may run them all), every thread dequeues its tasks in
\* submission order, and when all have completed each ran exactly once.
C13_ScenarioA ==
    ScenarioA =>
        /\ \A t \in Tasks : Dispatched(t) =>
              /\ InlineExecs(t) = {}
              /\ Len(execs[t]) <= 1 /\ done[t] <= Len(execs[t])
              /\ ExecutedBy(t) \subseteq WorkersOf(cpu_worker_)
              /\ QueuesOf(t) \subseteq {cpu_worker_}
        /\ Cardinality(ScenarioAThreads) <= cpu_worker_nthreads_
        /\ (\E t \in Tasks : done[t] > 0) => Cardinality(ScenarioAThreads) >= 1
        /\ \A w \in WorkersOf(cpu_worker_) :
              \A i, j \in DOMAIN deqSeq[cpu_worker_] :
                  (/\ i < j
                   /\ deqSeq[cpu_worker_][i][2] = w
                   /\ deqSeq[cpu_worker_][j][2] = w)
                  => deqSeq[cpu_worker_][i][1] < deqSeq[cpu_worker_][j][1]
        /\ ScenarioADone =>
              \A t \in Tasks : Len(execs[t]) = 1 /\ PushesTo(t, cpu_worker_) = 1

\* All the tasks of the scenario have run, and one thread ran them all.
C13_Witness ==
    /\ ScenarioADone
    /\ Cardinality(ScenarioAThreads) = 1
    /\ Len(deqSeq[cpu_worker_]) = MaxTasks

\* C14: the CPU block and its started pool exist from the end of the
\* constructor on: the threads of the CPU pool are never unstarted, and at
\* every push of a CPU task the CPU block is live; a call for a CPU task
\* never is at the lock, the recheck, the creation or the pool start, and its
\* push leaves the slots, the creation count and create_mutex_ as they were.
C14_CPUBlockEager ==
    [][/\ \A w \in WorkersOf(cpu_worker_) : wpc[w] # "unstarted"
       /\ \A c \in Callers :
             (ctask[c] # 0 /\ task[ctask[c]].ctx.dev_mask = cpu_kDevMask)
             => /\ cpc[c] \notin {"lock", "locked", "pool", "push"}
                /\ create_mutex_ # c
                /\ (cpc[c] = "queued" /\ cpc'[c] # "queued")
                   => /\ dstate[cpu_worker_] = "live"
                      /\ ~exit_now[cpu_worker_]
                      /\ pushSeq'[cpu_worker_] = Append(pushSeq[cpu_worker_], ctask[c])
                      /\ UNCHANGED <<slot, constructed, nlock, create_mutex_, wpc>>
      ]_vars

\* A CPU task is in the CPU queue, pushed by a call that has returned, while a
\* thread of the pool started by the constructor is executing an earlier one
\* and no GPU block was ever made.
C14_Witness ==
    /\ \E t \in Tasks : Returned(t) /\ task_queue[cpu_worker_] = <<t>>
    /\ \E w \in WorkersOf(cpu_worker_) : wpc[w] = "exec"
    /\ \A s \in Slots : constructed[s] = 0 /\ nlock[s] = 0

\* Tasks that take the queued path and pass its checks.
IsQueuedTask(t) ==
    /\ Dispatched(t)
    /\ ~(task[t].prop = kAsync /\ task[t].pusher_thread)
    /\ \/ task[t].ctx.dev_mask = cpu_kDevMask
       \/ task[t].ctx.dev_mask = gpu_kDevMask /\ task[t].ctx.dev_id \in DevIds

\* The queue the claim names for a task.
TargetQueue(t) ==
    IF task[t].ctx.dev_mask = cpu_kDevMask THEN cpu_worker_
    ELSE IF task[t].prop \in {kCopyToGPU, kCopyFromGPU}
    THEN <<"copy", task[t].ctx.dev_id>>
    ELSE <<"normal", task[t].ctx.dev_id>>

\* C15: on the queued path the queue a task is pushed to is a function of its
\* context and property: the CPU queue for every CPU task whatever its
\* property; for a GPU task the copy block of its device id when the property
\* is kCopyToGPU or kCopyFromGPU, and the normal block of its device id for
\* any other property, kAsync handed in with pusher_thread = false included.
\* The task is pushed to no other queue, and once its call has returned it
\* was pushed to that queue.
C15_TargetQueue ==
    \A t \in Tasks : IsQueuedTask(t) =>
        /\ QueuesOf(t) \subseteq {TargetQueue(t)}
        /\ Returned(t) => PushesTo(t, TargetQueue(t)) = 1
        /\ InlineExecs(t) = {}
        /\ \A w \in ExecutedBy(t) : w[1] = TargetQueue(t)

\* A kAsync GPU task handed in from another thread went to the normal block,
\* and a CPU task with a copy property went to the CPU queue.
C15_Witness ==
    \E t1, t2 \in Tasks :
        /\ Returned(t1) /\ Returned(t2)
        /\ task[t1].ctx.dev_mask = gpu_kDevMask /\ task[t1].prop = kAsync
        /\ PushesTo(t1, <<"normal", task[t1].ctx.dev_id>>) = 1
        /\ task[t2].ctx.dev_mask = cpu_kDevMask /\ task[t2].prop = kCopyToGPU
        /\ PushesTo(t2, cpu_worker_) = 1

\* The state of a worker thread in the words of the state machine: Created
\* until the loop is entered, Running inside the loop, Draining once Pop has
\* failed (the stream is being released), Terminated after the return.  A
\* thread that was never started is in no state.  CPUWorker has no code
\* between the failed Pop and its return, so its Draining takes no step.
Lifecycle(w) ==
    CASE wpc[w] = "unstarted" -> "None"
      [] wpc[w] = "start" -> "Created"
      [] wpc[w] \in {"pop", "exec"} -> "Running"
      [] wpc[w] = "release" -> "Draining"
      [] wpc[w] = "exited" -> "Terminated"

\* C17: a worker thread goes Created, Running, Draining, Terminated and takes
\* no other transition: it leaves Running only at a Pop that fails on its own
\* queue, which is then shut down; it is never back in the loop afterwards; a
\* thread that is Draining or Terminated has its queue shut down; and a
\* Draining thread reaches Terminated.
C17_WorkerLifecycle ==
    /\ [][\A w \in Workers :
             LET from == Lifecycle(w)
                 to == Lifecycle(w)'
             IN /\ from # to =>
                      \/ from = "None" /\ to = "Created" /\ w \in GPUWorkers
                      \/ from = "Created" /\ to = "Running" /\ wpc'[w] = "pop"
                      \/ /\ from = "Running" /\ wpc[w] = "pop"
                         /\ exit_now[w[1]]
                         /\ to = (IF w \in GPUWorkers THEN "Draining" ELSE "Terminated")
                         /\ UNCHANGED <<task_queue, execs, deqSeq, wtask>>
                      \/ from = "Draining" /\ to = "Terminated"
                /\ (wpc[w] = "pop" /\ wpc'[w] = "exec") => ~exit_now[w[1]]
         ]_vars
    /\ [](\A w \in Workers :
             Lifecycle(w) \in {"Draining", "Terminated"} => exit_now[w[1]])
    /\ \A w \in GPUWorkers :
          (Lifecycle(w) = "Draining") ~> (Lifecycle(w) = "Terminated")

\* One thread of a GPU block is Draining, another of the same block is still
\* Running the task it dequeued before the signal, and a thread of the CPU
\* pool is Running.
C17_Witness ==
    \E w1, w2 \in GPUWorkers :
        /\ w1[1] = w2[1]
        /\ Lifecycle(w1) = "Draining" /\ wpc[w2] = "exec"
        /\ \E w3 \in WorkersOf(cpu_worker_) : Lifecycle(w3) = "Running"

\* The worker threads that hold a stream: from NewStream to DeleteStream.
HoldsStream(w) == w \in GPUWorkers /\ wpc[w] \in {"pop", "exec", "release"}

\* C18: a GPU worker thread acquires one stream before its loop, a copy
\* stream in a copy worker and a compute stream otherwise, runs every task
\* with that stream, and releases it once, after the loop and before it
\* returns; every stream in use is held by exactly one thread and no two
\* threads have the same stream; the CPU workers and inline execution run
\* with the null stream.
C18_StreamOwnership ==
    /\ \A w \in GPUWorkers :
          /\ wpc[w] \in {"unstarted", "start"} =>
                nstream[w] = [acq |-> 0, rel |-> 0] /\ wstream[w] = NullStream
          /\ HoldsStream(w) =>
                /\ nstream[w] = [acq |-> 1, rel |-> 0]
                /\ wstream[w] # NullStream
                /\ streams[wstream[w]] =
                      (IF w[1][1] = "copy" THEN "copy" ELSE "compute")
          /\ wpc[w] = "exited" =>
                /\ nstream[w] = [acq |-> 1, rel |-> 1]
                /\ streams[wstream[w]] = "free"
    /\ \A w1, w2 \in GPUWorkers :
          (w1 # w2 /\ HoldsStream(w1) /\ HoldsStream(w2)) => wstream[w1] # wstream[w2]
    /\ \A i \in StreamIds :
          streams[i] # "free" =>
              Cardinality({w \in GPUWorkers : HoldsStream(w) /\ wstream[w] = i}) = 1
    /\ \A w \in WorkersOf(cpu_worker_) : wstream[w] = NullStream
    /\ \A t \in Tasks : \A i \in DOMAIN execs[t] :
          IF execs[t][i].by = "worker"
          THEN execs[t][i].stream = wstream[execs[t][i].worker]
          ELSE execs[t][i].stream = NullStream

\* A copy worker and a normal worker of one device are executing, each with
\* its own stream, while the other normal worker holds a third.
C18_Witness ==
    \E w1, w2, w3 \in GPUWorkers :
        /\ w1[1][1] = "copy" /\ w2[1][1] = "normal" /\ w3[1][1] = "normal" /\ w2 # w3
        /\ wpc[w1] = "exec" /\ wpc[w2] = "exec" /\ HoldsStream(w3)
        /\ streams[wstream[w1]] = "copy" /\ streams[wstream[w2]] = "compute"
        /\ execs[wtask[w1]][1].stream = wstream[w1]
        /\ execs[wtask[w2]][1].stream = wstream[w2]

\* C19: a task a worker has dequeued, or a call has started inline, runs to
\* completion: the execution ends in one way only, with the task completed;
\* the shutdown signal changes neither the position of a thread nor the task
\* it executes; a thread that has left its loop has completed the last task
\* it dequeued; and a thread executing when its queue is signalled completes
\* that task.
C19_RunsToCompletion ==
    /\ [][/\ \A w \in Workers :
                /\ (wpc[w] = "exec" /\ (wpc'[w] # "exec" \/ wtask'[w] # wtask[w]))
                   => /\ wpc'[w] = "pop" /\ wtask'[w] = wtask[w]
                      /\ done'[wtask[w]] = done[wtask[w]] + 1
                /\ (exit_now'[w[1]] /\ ~exit_now[w[1]])
                   => UNCHANGED <<wpc, wtask, done, execs, task_queue>>
          /\ \A c \in Callers :
                (cpc[c] = "inline" /\ cpc'[c] # "inline")
                => (aborted' \/ (cpc'[c] = "idle" /\ done'[ctask[c]] = done[ctask[c]] + 1))
         ]_vars
    /\ [](\A w \in Workers :
             (wpc[w] \in {"release", "exited"} /\ wtask[w] # 0) => done[wtask[w]] = 1)
    /\ \A b \in Blocks :
          (exit_now[b] /\ \E w \in WorkersOf(b) : wpc[w] = "exec")
              ~> (\A w \in WorkersOf(b) :
                     /\ wpc[w] \in {"release", "exited"}
                     /\ wtask[w] # 0 => done[wtask[w]] = 1)

\* The queue of a block has been signalled while one of its threads is
\* executing a task, and tasks the signal cut off wait in the queue.
C19_Witness ==
    \E w \in Workers :
        /\ exit_now[w[1]] /\ wpc[w] = "exec" /\ done[wtask[w]] = 0
        /\ task_queue[w[1]] # <<>>

\* The block of slot s is stored and its pool is not started yet.
InCreationWindow(s) ==
    /\ slot[s] # NullBlock
    /\ \A w \in WorkersOf(s) : wpc[w] = "unstarted"

\* C20: a new block is stored in its slot before its pool is started, so a
\* call that reads the slot without the lock may push to the block while it
\* has no thread; while the pool is not started every task pushed stays in
\* the queue, unexecuted; a task is executed only by threads of the block it
\* was pushed to; and a task pushed in that window is executed after the pool
\* has started, unless the queue is shut down or the process aborts first.
C20_PushBeforePoolStart ==
    /\ [][\A s \in Slots :
             /\ slot'[s] # slot[s] =>
                   /\ slot[s] = NullBlock
                   /\ InCreationWindow(s)'
                   /\ \A w \in WorkersOf(s) : wpc[w] = "unstarted"
             /\ (\E w \in WorkersOf(s) : wpc[w] = "unstarted" /\ wpc'[w] # "unstarted")
                => /\ InCreationWindow(s)
                   /\ \A w \in WorkersOf(s) : wpc'[w] = "start"
                   /\ UNCHANGED <<slot, task_queue, pushSeq>>
         ]_vars
    /\ [](\A s \in Slots :
             InCreationWindow(s) =>
                 /\ task_queue[s] = pushSeq[s] /\ deqSeq[s] = <<>>
                 /\ \A i \in DOMAIN pushSeq[s] :
                       execs[pushSeq[s][i]] = <<>> /\ done[pushSeq[s][i]] = 0)
    /\ [](\A t \in Tasks : \A w \in ExecutedBy(t) :
             PushesTo(t, w[1]) = 1 /\ w \in WorkersOf(w[1]))
    /\ \A s \in Slots :
          (InCreationWindow(s) /\ task_queue[s] # <<>>)
              ~> \/ aborted \/ exit_now[s]
                 \/ /\ deqSeq[s] # <<>>
                    /\ deqSeq[s][1][1] = pushSeq[s][1]
                    /\ deqSeq[s][1][2] \in WorkersOf(s)
                    /\ done[pushSeq[s][1]] = 1

\* The creating call is between storing the block and starting its pool, and
\* the call of another thread has pushed its task to that block and returned.
C20_Witness ==
    \E c \in Callers, s \in Slots, t \in Tasks :
        /\ cpc[c] = "pool" /\ cblock[c][1] = s /\ create_mutex_ = c
        /\ InCreationWindow(s)
        /\ t # ctask[c] /\ Returned(t)
        /\ task_queue[s] = <<t>>
====
